---- MODULE Spec2Model ----
(***************************************************************************)
(* The Sudoku API bridge (src/src/api/bridge_server.py): a Flask service   *)
(* whose handlers turn a JSON request into one invocation of the engine    *)
(* executable (sudoku_api <command> [<param>]) and relay the JSON the       *)
(* engine writes to stdout.  The engine itself is not part of the source   *)
(* tree; its commands are modelled from sections 3 to 7 of the             *)
(* specification (Board, ConstraintValidator, SymbolicSolver, training).   *)
(***************************************************************************)
EXTENDS Integers, Sequences, FiniteSets, TLC

VARIABLES
  files,     \* the engine executables present on disk (normalised paths)
  pc,        \* per handler thread: "idle", "handler", "engine", "responded"
  req,       \* per thread: the request being served
  argv,      \* per thread: the argument vector of the launched engine process
  launched,  \* per thread: engine processes launched for the current request
  out,       \* per thread: how call_cpp_api ended and what the engine wrote
  resp,      \* per thread: the HTTP response of the handler
  board,     \* engine: the session Board, board[row][col] = 0 (empty) or 1..9
  fixed,     \* engine: the cells given by the loaded / generated puzzle
  epoch,     \* engine: HeuristicModel version (one per update)
  trained    \* engine: TrainingStats, puzzles trained so far

vars == <<files, pc, req, argv, launched, out, resp, board, fixed, epoch, trained>>
engine == <<board, fixed, epoch, trained>>

(***************************************************************************)
(* Bounds of the model.                                                    *)
(***************************************************************************)
NumThreads == 2   \* handler threads of the threaded specification
MaxValue == 2     \* make_move values tried against the engine: 0..MaxValue
MaxPuzzles == 1   \* puzzle counts sent to train_batch: 0..MaxPuzzles
MaxHoles == 3     \* empty cells of a board a solve is requested on
MaxCount == 10    \* largest puzzle count the model parses out of a parameter
MaxTrained == 2   \* cap on the TrainingStats counter

(***************************************************************************)
(* JSON values of a request body, and Python's view of them.               *)
(***************************************************************************)
JInt(n) == [t |-> "int", i |-> n, s |-> ""]
JStr(x) == [t |-> "str", i |-> 0, s |-> x]
JNull == [t |-> "null", i |-> 0, s |-> ""]
Absent == [t |-> "absent", i |-> 0, s |-> ""]

\* str(v) / f"{v}" of a value decoded from JSON
PyStr(v) ==
  CASE v.t = "int" -> ToString(v.i)
    [] v.t = "str" -> v.s
    [] OTHER -> "None"

\* truth value of `if params:`
Truthy(v) ==
  CASE v.t = "int" -> v.i # 0
    [] v.t = "str" -> v.s # ""
    [] OTHER -> FALSE

\* data.get(key, default) on a JSON object: the default only when the key is absent
DictGet(v, default) == IF v = Absent THEN default ELSE v

Body(kind, row, col, value, difficulty, solver, puzzles) ==
  [kind |-> kind, row |-> row, col |-> col, value |-> value,
   difficulty |-> difficulty, solver |-> solver, puzzles |-> puzzles]
NoBody == Body("none", Absent, Absent, Absent, Absent, Absent, Absent)
ArrayBody == Body("array", Absent, Absent, Absent, Absent, Absent, Absent)
MoveBody(r, c, v) == Body("object", r, c, v, Absent, Absent, Absent)
DifficultyBody(d) == Body("object", Absent, Absent, Absent, d, Absent, Absent)
SolverBody(s) == Body("object", Absent, Absent, Absent, Absent, s, Absent)
PuzzlesBody(n) == Body("object", Absent, Absent, Absent, Absent, Absent, n)

(***************************************************************************)
(* Results: the JSON value a call returns.  `type` is the JSON type of the *)
(* value; an object may or may not carry a boolean success and a string    *)
(* message; payload names the command-specific part.                       *)
(***************************************************************************)
Result(type, hasSuccess, success, hasMessage, message, payload) ==
  [type |-> type, hasSuccess |-> hasSuccess, success |-> success,
   hasMessage |-> hasMessage, message |-> message, payload |-> payload]
NoResult == Result("none", FALSE, FALSE, FALSE, "", "")
Failure(msg) == Result("object", TRUE, FALSE, TRUE, msg, "")
Success(msg, payload) == Result("object", TRUE, TRUE, TRUE, msg, payload)
\* well-formed JSON that is not a result object
BareObject == Result("object", FALSE, FALSE, FALSE, "", "")
BareArray == Result("array", FALSE, FALSE, FALSE, "", "")

IsResultObject(r) == r.type = "object" /\ r.hasSuccess /\ r.hasMessage
IsFailure(r) == IsResultObject(r) /\ ~r.success

(***************************************************************************)
(* call_cpp_api: executable discovery.                                     *)
(***************************************************************************)
possible_paths ==
  <<"../../build/bin/sudoku_api", "./build/bin/sudoku_api", "build/bin/sudoku_api">>

\* the file a relative path names: "./x" and "x" are the same file
Normalize(path) == IF path = "./build/bin/sudoku_api" THEN "build/bin/sudoku_api" ELSE path
AllFiles == {Normalize(possible_paths[i]) : i \in 1..Len(possible_paths)}

\* os.path.exists(path)
PathExists(path, fs) == Normalize(path) \in fs

RECURSIVE ScanPaths(_, _)
ScanPaths(i, fs) ==
  IF i > Len(possible_paths) THEN "" \* api_path is None
  ELSE IF PathExists(possible_paths[i], fs) THEN possible_paths[i]
  ELSE ScanPaths(i + 1, fs)

\* the for loop of call_cpp_api, "" standing for None
FindApiPathLast(fs) ==
  LET hits == {i \in 1..Len(possible_paths) : PathExists(possible_paths[i], fs)}
  IN IF hits = {} THEN "" ELSE possible_paths[CHOOSE i \in hits : \A j \in hits : j <= i]
FindApiPath(fs) == ScanPaths(1, fs)

NotFoundMessage ==
  "C++ API not found. Run 'make' first. Checked paths: "
    \o "['../../build/bin/sudoku_api', './build/bin/sudoku_api', 'build/bin/sudoku_api']"

(***************************************************************************)
(* call_cpp_api: the argument vector and the result of a finished process. *)
(***************************************************************************)
\* the argv of subprocess.run: the parameter is passed only when it is truthy
EngineArgv(api_path, command, params) ==
  IF Truthy(params) THEN <<api_path, command, params.s>> ELSE <<api_path, command>>

\* how a launched process can end: [how, json]
Outcome(how, json) == [how |-> how, json |-> json]
NoOutcome == Outcome("none", NoResult)

\* what call_cpp_api returns for a finished process; kind "raise" would be an
\* exception leaving call_cpp_api
Returned(r) == [kind |-> "return", value |-> r]
Raised == [kind |-> "raise", value |-> NoResult]

CallResultNoParseGuard(o) ==
  CASE o.how = "exit_nonzero" -> Returned(Failure("C++ API error"))
    [] o.how = "bad_json" -> Raised
    [] o.how = "launch_error" -> Returned(Failure("Unexpected error"))
    [] o.how = "not_found" -> Returned(Failure(NotFoundMessage))
    [] OTHER -> Returned(o.json)
CallResult(o) ==
  CASE o.how = "exit_nonzero" -> Returned(Failure("C++ API error"))
    [] o.how = "bad_json" -> Returned(Failure("JSON parse error"))
    [] o.how = "launch_error" -> Returned(Failure("Unexpected error"))
    [] o.how = "not_found" -> Returned(Failure(NotFoundMessage))
    [] OTHER -> Returned(o.json)

(***************************************************************************)
(* The handlers: what each route does before it calls call_cpp_api.        *)
(***************************************************************************)
Endpoints ==
  {"get_board", "make_move", "load_puzzle", "generate_puzzle", "clear_board",
   "get_status", "validate_board", "get_ai_hint", "get_ai_moves", "solve_puzzle",
   "get_ai_stats", "train_ai", "health_check"}

Call(command, params) == [does |-> "call", command |-> command, params |-> params]
Raise == [does |-> "raise", command |-> "", params |-> JStr("")]
Static == [does |-> "static", command |-> "", params |-> JStr("")]

\* f"{row},{col},{value}"
MakeMoveParamsSwapped(data) == PyStr(data.col) \o "," \o PyStr(data.row) \o "," \o PyStr(data.value)
MakeMoveParams(data) == PyStr(data.row) \o "," \o PyStr(data.col) \o "," \o PyStr(data.value)

\* request.json is None (or the request is refused) without a JSON body; data[...]
\* and data.get(...) need a JSON object
HandlerStep(endpoint, data) ==
  CASE endpoint = "get_board" -> Call("get_board", JStr(""))
    [] endpoint = "make_move" ->
         IF data.kind # "object" \/ Absent \in {data.row, data.col, data.value}
         THEN Raise
         ELSE Call("make_move", JStr(MakeMoveParams(data)))
    [] endpoint = "load_puzzle" -> Call("load_puzzle", JStr(""))
    [] endpoint = "generate_puzzle" ->
         IF data.kind # "object" THEN Raise
         ELSE Call("generate_puzzle", DictGet(data.difficulty, JStr("medium")))
    [] endpoint = "clear_board" -> Call("clear_board", JStr(""))
    [] endpoint = "get_status" -> Call("get_status", JStr(""))
    [] endpoint = "validate_board" -> Call("validate", JStr(""))
    [] endpoint = "get_ai_hint" ->
         IF data.kind # "object" THEN Raise
         ELSE Call("get_ai_move", DictGet(data.solver, JStr("neuro_symbolic")))
    [] endpoint = "get_ai_moves" ->
         IF data.kind # "object" THEN Raise
         ELSE Call("get_ai_moves", DictGet(data.solver, JStr("neuro_symbolic")))
    [] endpoint = "solve_puzzle" ->
         IF data.kind # "object" THEN Raise
         ELSE Call("solve_puzzle", DictGet(data.solver, JStr("neuro_symbolic")))
    [] endpoint = "get_ai_stats" -> Call("training_stats", JStr(""))
    [] endpoint = "train_ai" ->
         IF data.kind # "object" THEN Raise
         ELSE Call("train_batch", JStr(PyStr(DictGet(data.puzzles, JInt(10)))))
    [] OTHER -> Static

HealthResult == Result("object", FALSE, FALSE, TRUE, "Sudoku API Bridge is running", "healthy")

\* jsonify(value) / the 500 page of an unhandled exception
JsonResponse(r) == [kind |-> "json", body |-> r]
ErrorResponse == [kind |-> "error", body |-> NoResult]
NoResponse == [kind |-> "none", body |-> NoResult]
NoRequest == [endpoint |-> "", body |-> NoBody]

(***************************************************************************)
(* The engine (modelled from the specification, sections 3, 4, 6 and 7).   *)
(* Board: a 9x9 grid, rows and columns numbered from 0.                    *)
(***************************************************************************)
BoxSize == 3
N == BoxSize * BoxSize
Idx == 0..(N - 1)
Cells == Idx \X Idx
EmptyBoard == [r \in Idx |-> [c \in Idx |-> 0]]

\* the rows (columns) of the box that row (column) i runs through
BoxRange(i) == ((i \div BoxSize) * BoxSize)..((i \div BoxSize) * BoxSize + BoxSize - 1)

\* the values of the filled cells of a row, a column, a box
RowValues(b, r) == {b[r][j] : j \in Idx} \ {0}
ColValues(b, c) == {b[i][c] : i \in Idx} \ {0}
BoxValues(b, r, c) == {b[i][j] : i \in BoxRange(r), j \in BoxRange(c)} \ {0}

Filled(b) == {p \in Cells : b[p[1]][p[2]] # 0}

\* the Board invariant: no value twice in a row, column or box
NoDuplicates(b) ==
  \A p \in Filled(b) : \A q \in Filled(b) :
    (q # p /\ (q[1] = p[1] \/ q[2] = p[2]
                 \/ (q[1] \in BoxRange(p[1]) /\ q[2] \in BoxRange(p[2]))))
      => b[q[1]][q[2]] # b[p[1]][p[2]]

\* ConstraintValidator.is_legal (4.1)
IsLegalNoColumn(b, fx, r, c, v) ==
  /\ r \in Idx /\ c \in Idx /\ v \in 1..N
  /\ b[r][c] = 0 /\ <<r, c>> \notin fx
  /\ v \notin RowValues(b, r) /\ v \notin BoxValues(b, r, c)
IsLegal(b, fx, r, c, v) ==
  /\ r \in Idx /\ c \in Idx /\ v \in 1..N
  /\ b[r][c] = 0 /\ <<r, c>> \notin fx
  /\ v \notin RowValues(b, r) /\ v \notin ColValues(b, c) /\ v \notin BoxValues(b, r, c)

(***************************************************************************)
(* SymbolicSolver (4.2): backtracking over the empty cell with the fewest  *)
(* legal candidates (lowest row-major index on a tie), candidates in       *)
(* ascending order.  A naked single is the cell this rule picks first.     *)
(* NoSolution stands for Unsolvable.                                       *)
(***************************************************************************)
NoSolution == <<>>
Candidates(b, r, c) == (1..N) \ (RowValues(b, r) \cup ColValues(b, c) \cup BoxValues(b, r, c))
MinOf(S) == CHOOSE x \in S : \A y \in S : x <= y

RECURSIVE Search(_), TryValues(_, _, _, _)
Search(b) ==
  LET es == Cells \ Filled(b) IN
  IF es = {} THEN b
  ELSE LET m == MinOf({Cardinality(Candidates(b, p[1], p[2])) : p \in es})
           k == MinOf({p[1] * N + p[2] :
                         p \in {q \in es : Cardinality(Candidates(b, q[1], q[2])) = m}})
       IN IF m = 0 THEN NoSolution
          ELSE TryValues(b, k \div N, k % N, Candidates(b, k \div N, k % N))
TryValues(b, r, c, cs) ==
  IF cs = {} THEN NoSolution
  ELSE LET v == MinOf(cs)
           s == Search([b EXCEPT ![r][c] = v])
       IN IF s # NoSolution THEN s ELSE TryValues(b, r, c, cs \ {v})

(***************************************************************************)
(* Puzzles.  Generation (4.3) draws a random solved grid and carves cells  *)
(* out of it; the model draws from a catalogue: one solved grid and its    *)
(* relabelling, carved at the cells the requests of the model play on.     *)
(***************************************************************************)
SolvedGrid == [r \in Idx |-> [c \in Idx |-> (((r % BoxSize) * BoxSize + (r \div BoxSize) + c) % N) + 1]]
Relabel(v) == IF v = 1 THEN 2 ELSE IF v = 2 THEN 1 ELSE v
SolvedGrids == {SolvedGrid, [r \in Idx |-> [c \in Idx |-> Relabel(SolvedGrid[r][c])]]}
Carve(g, holes) == [r \in Idx |-> [c \in Idx |-> IF <<r, c>> \in holes THEN 0 ELSE g[r][c]]]

Difficulties == {"easy", "medium", "hard", "expert"}
Holes(d) ==
  CASE d = "easy" -> {<<0, 0>>}
    [] d = "medium" -> {<<0, 0>>, <<0, 1>>}
    [] d = "hard" -> {<<0, 0>>, <<3, 0>>}
    [] OTHER -> {<<0, 0>>, <<0, 1>>, <<3, 0>>}
Generated(d) == {Carve(g, Holes(d)) : g \in SolvedGrids}
StoredPuzzle == Carve(SolvedGrid, {<<0, 0>>, <<0, 1>>, <<3, 0>>})

SolverNames == {"symbolic", "neuro_symbolic"}

(***************************************************************************)
(* Parameters as the engine reads them: decimal numbers, "row,col,value".  *)
(***************************************************************************)
MoveText(m) == ToString(m[1]) \o "," \o ToString(m[2]) \o "," \o ToString(m[3])
MoveTexts == {<<MoveText(m), m>> : m \in (0..N) \X (0..N) \X (0..N)}
NoMove == <<-1, -1, -1>>
ParseMove(text) ==
  IF \E e \in MoveTexts : e[1] = text
  THEN (CHOOSE e \in MoveTexts : e[1] = text)[2]
  ELSE NoMove
ParseCount(text) ==
  IF \E n \in 0..MaxCount : ToString(n) = text
  THEN CHOOSE n \in 0..MaxCount : ToString(n) = text
  ELSE -1

(***************************************************************************)
(* The commands of the engine (6): the states and results one run of a     *)
(* command can end in.  A failure (7) returns the state it was given.      *)
(***************************************************************************)
EngineState(b, fx, e, n) == [board |-> b, fixed |-> fx, epoch |-> e, trained |-> n]
Ran(st, res) == [st |-> st, res |-> res]

MakeMove(st, text) ==
  LET m == ParseMove(text) IN
  IF m # NoMove /\ IsLegal(st.board, st.fixed, m[1], m[2], m[3])
  THEN {Ran([st EXCEPT !.board[m[1]][m[2]] = m[3]], Success("Move applied", "board"))}
  ELSE {Ran(st, Failure("InvalidMove"))}

SolvePuzzleResetsOnFailure(st) ==
  IF ~NoDuplicates(st.board) THEN {Ran(st, Failure("InvalidBoard"))}
  ELSE LET r == Search(st.board) IN
       IF r = NoSolution
       THEN {Ran([st EXCEPT !.board = [i \in Idx |-> [j \in Idx |->
                                         IF <<i, j>> \in st.fixed THEN st.board[i][j] ELSE 0]]],
                 Failure("Unsolvable"))}
       ELSE {Ran([st EXCEPT !.board = r], Success("Solved", "board"))}
SolvePuzzle(st) ==
  IF ~NoDuplicates(st.board) THEN {Ran(st, Failure("InvalidBoard"))}
  ELSE LET r == Search(st.board) IN
       IF r = NoSolution THEN {Ran(st, Failure("Unsolvable"))}
       ELSE {Ran([st EXCEPT !.board = r], Success("Solved", "board"))}

\* train_batch (4.6): every puzzle of the batch feeds one HeuristicModel.update;
\* the counters are followed up to MaxTrained, a batch that would pass it has no
\* completed run
TrainBatch(st, text) ==
  LET n == ParseCount(text) IN
  IF n < 0 THEN {Ran(st, Failure("InvalidCount"))}
  ELSE IF st.trained + n > MaxTrained THEN {}
  ELSE {Ran([st EXCEPT !.epoch = @ + n, !.trained = @ + n], Success("Trained", "stats"))}

EngineExec(command, args, st) ==
  CASE command = "make_move" ->
         IF Len(args) = 1 THEN MakeMove(st, args[1]) ELSE {Ran(st, Failure("InvalidMove"))}
    [] command = "load_puzzle" ->
         {Ran([st EXCEPT !.board = StoredPuzzle, !.fixed = Filled(StoredPuzzle)],
              Success("Puzzle loaded", "board"))}
    [] command = "generate_puzzle" ->
         IF Len(args) = 1 /\ args[1] \in Difficulties
         THEN {Ran([st EXCEPT !.board = g, !.fixed = Filled(g)], Success("Puzzle generated", "board")) :
                 g \in Generated(args[1])}
         ELSE {Ran(st, Failure("Unknown difficulty"))}
    [] command = "clear_board" ->
         {Ran([st EXCEPT !.board = EmptyBoard, !.fixed = {}], Success("Board cleared", "board"))}
    [] command = "solve_puzzle" ->
         IF Len(args) = 1 /\ args[1] \in SolverNames
         THEN SolvePuzzle(st)
         ELSE {Ran(st, Failure("Unknown solver"))}
    [] command \in {"get_ai_move", "get_ai_moves"} ->
         IF Len(args) = 1 /\ args[1] \in SolverNames
         THEN {Ran(st, Success("Moves", "moves"))}
         ELSE {Ran(st, Failure("Unknown solver"))}
    [] command = "train_batch" ->
         IF Len(args) = 1 THEN TrainBatch(st, args[1]) ELSE {Ran(st, Failure("InvalidCount"))}
    [] command = "training_stats" -> {Ran(st, Success("Stats", "stats"))}
    [] command = "validate" -> {Ran(st, Success("Validated", "violations"))}
    [] command = "get_status" -> {Ran(st, Success("Status", "status"))}
    [] command = "get_board" -> {Ran(st, Success("Board", "board"))}
    [] OTHER -> {Ran(st, Failure("Unknown command"))}

\* One engine process: it runs its command and prints the result, or it ends
\* abnormally (non-zero exit, output that is not JSON, JSON that is no result
\* object) and has committed nothing.
Finished(how, json, st) == [how |-> how, json |-> json, st |-> st]
EngineRuns(av, st) ==
  {Finished("ok", x.res, x.st) : x \in EngineExec(av[2], SubSeq(av, 3, Len(av)), st)}
    \cup {Finished("exit_nonzero", NoResult, st), Finished("bad_json", NoResult, st),
          Finished("ok", BareObject, st), Finished("ok", BareArray, st)}

(***************************************************************************)
(* The service: one thread per request in flight.                          *)
(***************************************************************************)
Threads == 1..NumThreads
Request(endpoint, body) == [endpoint |-> endpoint, body |-> body]
ToResponse(cr) == IF cr.kind = "return" THEN JsonResponse(cr.value) ELSE ErrorResponse
CurrentState == EngineState(board, fixed, epoch, trained)

InitOver(T, FS) ==
  /\ files \in FS
  /\ pc = [t \in T |-> "idle"]
  /\ req = [t \in T |-> NoRequest]
  /\ argv = [t \in T |-> <<>>]
  /\ launched = [t \in T |-> 0]
  /\ out = [t \in T |-> NoOutcome]
  /\ resp = [t \in T |-> NoResponse]
  /\ board = EmptyBoard
  /\ fixed = {}
  /\ epoch = 0
  /\ trained = 0

\* a request arrives and is handed to a thread; a solve is asked for on boards
\* with at most MaxHoles empty cells
Receive(t, r) ==
  /\ pc[t] = "idle"
  /\ r.endpoint = "solve_puzzle" => Cardinality(Cells \ Filled(board)) <= MaxHoles
  /\ pc' = [pc EXCEPT ![t] = "handler"]
  /\ req' = [req EXCEPT ![t] = r]
  /\ UNCHANGED <<files, argv, launched, out, resp, engine>>

\* the handler up to the point where the engine process is running, or up to its
\* response when no process is started; canStart: whether the executable found
\* can be started (it may exist and yet fail to start, an OSError)
EndCall(t, how) ==
  /\ out' = [out EXCEPT ![t] = Outcome(how, NoResult)]
  /\ resp' = [resp EXCEPT ![t] = ToResponse(CallResult(Outcome(how, NoResult)))]
  /\ pc' = [pc EXCEPT ![t] = "responded"]
  /\ UNCHANGED <<argv, launched>>

Handle(t, canStart) ==
  /\ pc[t] = "handler"
  /\ LET h == HandlerStep(req[t].endpoint, req[t].body)
         api_path == FindApiPath(files)
     IN CASE h.does = "static" ->
               /\ out' = [out EXCEPT ![t] = Outcome("no_call", NoResult)]
               /\ resp' = [resp EXCEPT ![t] = JsonResponse(HealthResult)]
               /\ pc' = [pc EXCEPT ![t] = "responded"]
               /\ UNCHANGED <<argv, launched>>
          [] h.does = "raise" ->
               /\ out' = [out EXCEPT ![t] = Outcome("handler_error", NoResult)]
               /\ resp' = [resp EXCEPT ![t] = ErrorResponse]
               /\ pc' = [pc EXCEPT ![t] = "responded"]
               /\ UNCHANGED <<argv, launched>>
          [] OTHER ->
               IF api_path = "" THEN EndCall(t, "not_found")
               ELSE IF Truthy(h.params) /\ h.params.t # "str"
                 THEN EndCall(t, "launch_error") \* TypeError: an argument that is no string
               ELSE IF ~canStart THEN EndCall(t, "launch_error")
               ELSE /\ argv' = [argv EXCEPT ![t] = EngineArgv(api_path, h.command, h.params)]
                    /\ launched' = [launched EXCEPT ![t] = @ + 1]
                    /\ pc' = [pc EXCEPT ![t] = "engine"]
                    /\ UNCHANGED <<out, resp>>
  /\ UNCHANGED <<files, req, engine>>

\* the engine process ends; call_cpp_api turns its end into a result
EngineFinish(t) ==
  /\ pc[t] = "engine"
  /\ \E f \in EngineRuns(argv[t], CurrentState) :
       /\ out' = [out EXCEPT ![t] = Outcome(f.how, f.json)]
       /\ resp' = [resp EXCEPT ![t] = ToResponse(CallResult(Outcome(f.how, f.json)))]
       /\ board' = f.st.board
       /\ fixed' = f.st.fixed
       /\ epoch' = f.st.epoch
       /\ trained' = f.st.trained
  /\ pc' = [pc EXCEPT ![t] = "responded"]
  /\ UNCHANGED <<files, req, argv, launched>>

\* the response is sent; the thread is free again
Respond(t) ==
  /\ pc[t] = "responded"
  /\ pc' = [pc EXCEPT ![t] = "idle"]
  /\ req' = [req EXCEPT ![t] = NoRequest]
  /\ argv' = [argv EXCEPT ![t] = <<>>]
  /\ launched' = [launched EXCEPT ![t] = 0]
  /\ out' = [out EXCEPT ![t] = NoOutcome]
  /\ resp' = [resp EXCEPT ![t] = NoResponse]
  /\ UNCHANGED <<files, engine>>

NextOver(T, R) ==
  \E t \in T :
    \/ \E r \in R : Receive(t, r)
    \/ \E canStart \in BOOLEAN : Handle(t, canStart)
    \/ EngineFinish(t)
    \/ Respond(t)

(***************************************************************************)
(* Requests.                                                               *)
(***************************************************************************)
BodilessEndpoints ==
  {"get_board", "load_puzzle", "clear_board", "get_status", "validate_board",
   "get_ai_stats", "health_check"}
SolverEndpoints == {"get_ai_hint", "get_ai_moves", "solve_puzzle"}
JsonEndpoints == {"make_move", "generate_puzzle", "train_ai"} \cup SolverEndpoints

\* the requests of the adapter: every route, bodies with and without each field,
\* values of every JSON type the handlers treat differently
AdapterRequests ==
  {Request(e, NoBody) : e \in Endpoints}
    \cup {Request(e, ArrayBody) : e \in JsonEndpoints}
    \cup {Request("make_move", MoveBody(r, c, v)) :
            r \in {Absent, JInt(0)}, c \in {Absent, JInt(1)}, v \in {Absent, JInt(2), JNull}}
    \cup {Request("generate_puzzle", DifficultyBody(d)) :
            d \in {Absent, JStr("easy"), JStr(""), JNull, JInt(0), JInt(5)}}
    \cup {Request(e, SolverBody(x)) :
            e \in SolverEndpoints, x \in {Absent, JStr("symbolic"), JStr(""), JInt(1)}}
    \cup {Request("train_ai", PuzzlesBody(n)) :
            n \in {Absent, JStr("")} \cup {JInt(k) : k \in 0..MaxPuzzles}}

\* the requests that drive the engine: well-formed bodies, moves on MoveCells and
\* on a column off the board
MoveCells == {<<0, 0>>, <<0, 1>>, <<3, 0>>}
EngineRequests ==
  {Request(e, NoBody) : e \in {"load_puzzle", "clear_board", "validate_board"}}
    \cup {Request("make_move", MoveBody(JInt(p[1]), JInt(p[2]), JInt(v))) :
            p \in MoveCells \cup {<<0, N>>}, v \in 0..MaxValue}
    \cup {Request("generate_puzzle", DifficultyBody(d)) : d \in {Absent, JStr("expert"), JStr("")}}
    \cup {Request(e, SolverBody(Absent)) : e \in {"get_ai_hint", "solve_puzzle"}}
    \cup {Request("train_ai", PuzzlesBody(JInt(k))) : k \in 0..MaxPuzzles}

\* the requests two threads race on
ThreadedRequests ==
  {Request("make_move", MoveBody(JInt(0), JInt(0), JInt(1))),
   Request("load_puzzle", NoBody),
   Request("solve_puzzle", SolverBody(Absent)),
   Request("train_ai", PuzzlesBody(JInt(1))),
   Request("get_board", NoBody)}

(***************************************************************************)
(* Specifications.                                                         *)
(***************************************************************************)
Init == InitOver({1}, SUBSET AllFiles)
Next == NextOver({1}, AdapterRequests)
Spec == Init /\ [][Next]_vars

InitEngine == InitOver({1}, {{}, AllFiles})
NextEngine == NextOver({1}, EngineRequests)
SpecEngine == InitEngine /\ [][NextEngine]_vars

InitThreaded == InitOver(Threads, {AllFiles})
NextThreaded == NextOver(Threads, ThreadedRequests)
SpecThreaded == InitThreaded /\ [][NextThreaded]_vars

(***************************************************************************)
(* Properties.                                                             *)
(***************************************************************************)
Serving == DOMAIN pc
Called(t) == out[t].how \notin {"none", "no_call", "handler_error"}
CommandOf(endpoint) ==
  CASE endpoint = "validate_board" -> "validate"
    [] endpoint = "get_ai_hint" -> "get_ai_move"
    [] endpoint = "get_ai_stats" -> "training_stats"
    [] endpoint = "train_ai" -> "train_batch"
    [] OTHER -> endpoint
OneParameterCommands ==
  {"make_move", "generate_puzzle", "get_ai_move", "get_ai_moves", "solve_puzzle", "train_batch"}

\* C1: call_cpp_api never raises.  When the executable is not found, the process
\* exits non-zero, its stdout is not JSON, or launching it throws, the call
\* returns an object with success = false and a string message; every call that
\* was made ends in a returned JSON value, never in an exception.
C1_CallNeverRaises ==
  \A t \in Serving :
    pc[t] = "responded" /\ Called(t) =>
      /\ resp[t].kind = "json"
      /\ out[t].how \in {"not_found", "exit_nonzero", "bad_json", "launch_error"} =>
           /\ IsFailure(resp[t].body)
           /\ resp[t].body.message # ""

C1_Witness ==
  \E t \in Serving :
    /\ pc[t] = "responded" /\ launched[t] = 1
    /\ out[t].how = "bad_json"
    /\ resp[t] = JsonResponse(Failure("JSON parse error"))

\* C2: every result returned for a command is a JSON object with a boolean
\* success and a string message, whatever the engine wrote to stdout.
C2_EveryResultHasSuccessAndMessage ==
  \A t \in Serving :
    pc[t] = "responded" /\ Called(t) =>
      resp[t].kind = "json" /\ IsResultObject(resp[t].body)

\* C3: at no time are two engine invocations in progress.
C3_OneInvocationAtATime == Cardinality({t \in Serving : pc[t] = "engine"}) <= 1

\* C4: no two filled cells of the Board that share a row, a column or a box hold
\* the same value, and a make_move whose value is already present in the row,
\* the column or the box of its cell is rejected with InvalidMove, the Board
\* staying as it was.
FilledIn(b, cells) == {p \in cells : b[p[1]][p[2]] # 0}
ValuesIn(b, cells) == {b[p[1]][p[2]] : p \in FilledIn(b, cells)}
UnitsOfBoard ==
  {{<<i, j>> : j \in Idx} : i \in Idx} \cup {{<<i, j>> : i \in Idx} : j \in Idx}
    \cup {BoxRange(i) \X BoxRange(j) : i \in {0, 3, 6}, j \in {0, 3, 6}}
AllDistinct(b) ==
  \A u \in UnitsOfBoard : Cardinality(ValuesIn(b, u)) = Cardinality(FilledIn(b, u))
ConflictingMove(t) ==
  LET m == ParseMove(argv[t][3]) IN
  /\ argv[t][2] = "make_move" /\ Len(argv[t]) = 3
  /\ m[1] \in Idx /\ m[2] \in Idx /\ m[3] \in 1..N
  /\ \E p \in Cells :
       /\ p[1] = m[1] \/ p[2] = m[2] \/ (p[1] \in BoxRange(m[1]) /\ p[2] \in BoxRange(m[2]))
       /\ board[p[1]][p[2]] = m[3]
C4_NoDuplicateValues ==
  /\ [](AllDistinct(board) /\ \A p \in fixed : board[p[1]][p[2]] # 0)
  /\ [][\A t \in Serving :
          (pc[t] = "engine" /\ pc'[t] = "responded" /\ ConflictingMove(t)) =>
            /\ board' = board
            /\ IsResultObject(out'[t].json) => out'[t].json = Failure("InvalidMove")]_vars

\* the column conflict: the value already stands in the column of an empty,
\* free cell, and the move came back as InvalidMove
C4_Witness ==
  \E t \in Serving :
    /\ pc[t] = "responded" /\ req[t].endpoint = "make_move"
    /\ launched[t] = 1 /\ Len(argv[t]) = 3
    /\ out[t] = Outcome("ok", Failure("InvalidMove"))
    /\ LET m == ParseMove(argv[t][3]) IN
       /\ m # NoMove /\ m[1] \in Idx /\ m[2] \in Idx
       /\ board[m[1]][m[2]] = 0 /\ <<m[1], m[2]>> \notin fixed
       /\ \E i \in Idx : board[i][m[2]] = m[3]
       /\ \A j \in Idx : board[m[1]][j] # m[3]

\* C5: a command that ends in a failure (success = false, or an unhandled error)
\* leaves the Board, the HeuristicModel and the TrainingStats as they were, and
\* the thread that answered is free for the next request.
FailedResponse(r) == r.kind = "error" \/ (r.kind = "json" /\ IsFailure(r.body))
C5_FailureLeavesEngineUnchanged ==
  [][\A t \in Serving :
       /\ (pc[t] # "responded" /\ pc'[t] = "responded" /\ FailedResponse(resp'[t])) =>
            (board' = board /\ fixed' = fixed /\ epoch' = epoch /\ trained' = trained)
       /\ (pc[t] = "responded" /\ pc'[t] # "responded" /\ FailedResponse(resp[t])) =>
            (pc'[t] = "idle" /\ board' = board /\ fixed' = fixed /\ epoch' = epoch
               /\ trained' = trained)]_vars

\* Unsolvable: the stored puzzle with 2 played at (0,0), where (0,1) has no
\* candidate left; the move is still on the Board
C5_Witness ==
  \E t \in Serving :
    /\ pc[t] = "responded" /\ req[t].endpoint = "solve_puzzle"
    /\ out[t] = Outcome("ok", Failure("Unsolvable"))
    /\ board[0][0] = 2 /\ board[0][1] = 0 /\ <<0, 0>> \notin fixed

\* C6: a make_move request with row, col and value invokes the engine with the
\* command make_move and the one parameter "row,col,value", and the response is
\* what the engine printed.
HasMove(t) ==
  /\ req[t].endpoint = "make_move" /\ req[t].body.kind = "object"
  /\ Absent \notin {req[t].body.row, req[t].body.col, req[t].body.value}
C6_MakeMoveParameter ==
  \A t \in Serving :
    HasMove(t) =>
      /\ launched[t] > 0 =>
           /\ Len(argv[t]) = 3
           /\ argv[t][2] = "make_move"
           /\ argv[t][3] = PyStr(req[t].body.row) \o "," \o PyStr(req[t].body.col)
                             \o "," \o PyStr(req[t].body.value)
           /\ req[t].body = MoveBody(JInt(0), JInt(1), JInt(2)) => argv[t][3] = "0,1,2"
           /\ req[t].body = MoveBody(JInt(0), JInt(1), JNull) => argv[t][3] = "0,1,None"
      /\ (pc[t] = "responded" /\ out[t].how \notin {"not_found", "launch_error"}) => launched[t] = 1
      /\ (pc[t] = "responded" /\ out[t].how = "ok") => resp[t] = JsonResponse(out[t].json)

C6_Witness ==
  \E t \in Serving :
    /\ pc[t] = "responded" /\ req[t] = Request("make_move", MoveBody(JInt(0), JInt(1), JInt(2)))
    /\ launched[t] = 1
    /\ argv[t][3] = "0,1,2"
    /\ resp[t] = JsonResponse(Success("Move applied", "board"))
    /\ board[0][1] = 2

\* C7: every engine invocation carries one command name; make_move,
\* generate_puzzle, get_ai_move, get_ai_moves, solve_puzzle and train_batch are
\* always invoked with exactly one parameter, the other commands with none.
C7_ParameterCount ==
  \A t \in Serving :
    launched[t] > 0 =>
      /\ argv[t][2] = CommandOf(req[t].endpoint)
      /\ Len(argv[t]) = IF argv[t][2] \in OneParameterCommands THEN 3 ELSE 2

\* C8: every request to a command endpoint, whatever its body, is answered
\* with a JSON result object; no handler fails with an unhandled exception.
C8_NoUnhandledException ==
  \A t \in Serving : pc[t] = "responded" => resp[t].kind = "json"

\* C9: without the optional field the engine gets the default parameter
\* ("medium", "neuro_symbolic", "10"); with the field it gets the field's value
\* (its decimal string for train_batch).
OptionalField(t) ==
  CASE req[t].endpoint = "generate_puzzle" -> req[t].body.difficulty
    [] req[t].endpoint = "train_ai" -> req[t].body.puzzles
    [] OTHER -> req[t].body.solver
DefaultText(t) ==
  CASE req[t].endpoint = "generate_puzzle" -> "medium"
    [] req[t].endpoint = "train_ai" -> "10"
    [] OTHER -> "neuro_symbolic"
C9_DefaultOrGivenParameter ==
  \A t \in Serving :
    (launched[t] > 0 /\ req[t].endpoint \in {"generate_puzzle", "train_ai"} \cup SolverEndpoints) =>
      argv[t] = <<argv[t][1], CommandOf(req[t].endpoint),
                  IF OptionalField(t) = Absent THEN DefaultText(t) ELSE PyStr(OptionalField(t))>>

\* C10: the engine is launched at the first of the three paths that exists, in
\* the order of the list; when none exists no process is launched and the
\* result is a failure whose message lists the paths; a call launches at most
\* one process, and /health launches none.
C10_FirstExistingPath ==
  \A t \in Serving :
    /\ launched[t] <= 1
    /\ launched[t] = 1 =>
         \E i \in 1..3 :
           /\ argv[t][1] = possible_paths[i]
           /\ Normalize(possible_paths[i]) \in files
           /\ \A j \in 1..(i - 1) : Normalize(possible_paths[j]) \notin files
    /\ (files = {} /\ pc[t] = "responded" /\ Called(t)) =>
         /\ launched[t] = 0
         /\ resp[t] = JsonResponse(Failure(
              "C++ API not found. Run 'make' first. Checked paths: ['../../build/bin/sudoku_api', './build/bin/sudoku_api', 'build/bin/sudoku_api']"))
    /\ req[t].endpoint = "health_check" => launched[t] = 0

C10_Witness ==
  \E t \in Serving :
    /\ files = {"build/bin/sudoku_api"}
    /\ launched[t] = 1
    /\ argv[t][1] = "./build/bin/sudoku_api"

====
